---- MODULE Spec2Model ----
(***************************************************************************)
(* A model of rff's fuzzy scorer (src/fuzzy/score.rs): Score::new,         *)
(* Score::with_positions, generate_score_matrices and                      *)
(* derive_match_positions.                                                 *)
(*                                                                         *)
(* Scores are f64 in the source.  Every score constant is a multiple of    *)
(* 0.005, so the model counts in thousandths with exact integer            *)
(* arithmetic; SCORE_MIN and SCORE_MAX are the two infinities, and FAdd    *)
(* keeps SCORE_MIN absorbing as -inf is under f64 addition.                *)
(* Characters are one-character strings.  Indices are 0-based as in the    *)
(* source; a string's i-th character is s[i + 1].                          *)
(***************************************************************************)
EXTENDS Integers, Sequences, FiniteSets, TLC

\* ------------------------------------------------------------------ bounds
MaxNeedle == 3
MaxHaystack == 4

\* The characters: two letters, one of them in both cases, and a separator.
NeedleChars == {"a", "b"}
HaystackChars == {"a", "B", "/"}

Strings(S, n) == UNION {[1..k -> S] : k \in 0..n}
Needles == Strings(NeedleChars, MaxNeedle)
Haystacks == Strings(HaystackChars, MaxHaystack)

\* --------------------------------------------------------------- constants
\* fuzzy/consts.rs, in thousandths
SCORE_MIN == -1000000000
SCORE_MAX == 1000000000
SCORE_GAP_LEADING == -5
SCORE_GAP_TRAILING == -5
SCORE_GAP_INNER == -10
SCORE_MATCH_CONSECUTIVE == 1000
SCORE_MATCH_SLASH == 900
SCORE_MATCH_CAPITAL == 700

\* usize::MAX.  TLC's integers are 32 bits wide, so the largest of them stands
\* for 2^64 - 1: the wrapped value is only ever compared with matrix sizes.
USIZE_MAX == 2147483647

\* ------------------------------------------------------------- f64, Option
FAdd(a, b) == IF a = SCORE_MIN \/ b = SCORE_MIN THEN SCORE_MIN ELSE a + b
FMax(a, b) == IF a >= b THEN a ELSE b

None == [some |-> FALSE, v |-> 0]
Some(x) == [some |-> TRUE, v |-> x]

\* a - b on usize in a build without overflow checks
wrapping_sub(a, b) == IF a >= b THEN a - b ELSE USIZE_MAX - (b - a) + 1

\* a - b on usize: None is the panic of a build with overflow checks
usize_sub(a, b, checks) ==
    IF a >= b THEN Some(a - b)
    ELSE IF checks THEN None ELSE Some(wrapping_sub(a, b))

\* ------------------------------------------------------- fuzzy::eq, bonus
Lower(c) == IF c = "A" THEN "a" ELSE IF c = "B" THEN "b" ELSE c
IsUpper(c) == c \in {"A", "B"}
IsLower(c) == c \in {"a", "b"}
IsSeparator(c) == c \in {"/", "-", "_", " ", "."}

eq(a, b) == Lower(a) = Lower(b)

compute_bonus(haystack) ==
    [j \in 0..(Len(haystack) - 1) |->
        IF j = 0 THEN SCORE_MATCH_SLASH
        ELSE IF IsSeparator(haystack[j]) THEN SCORE_MATCH_SLASH
        ELSE IF IsLower(haystack[j]) /\ IsUpper(haystack[j + 1]) THEN SCORE_MATCH_CAPITAL
        ELSE 0]

\* -------------------------------------------------------------- fuzzy::Mat
Mat_new(rows, cols) ==
    [rows |-> rows, cols |-> cols,
     at |-> [p \in (0..(rows - 1)) \X (0..(cols - 1)) |-> 0]]

InBounds(mat, i, j) == i \in 0..(mat.rows - 1) /\ j \in 0..(mat.cols - 1)

Mat_get(mat, i, j) == IF InBounds(mat, i, j) THEN Some(mat.at[<<i, j>>]) ELSE None

Mat_set(mat, i, j, v) == [mat EXCEPT !.at[<<i, j>>] = v]

\* ------------------------------------------------ generate_score_matrices
\* line 105: the gap penalty of row i
gap_score(i, len_n) ==
    IF i = len_n - 1 THEN SCORE_GAP_TRAILING ELSE SCORE_GAP_INNER

\* lines 109-120 with the consecutive-match alternative of line 119 left out
match_score_no_consecutive(m, d, bonus, i, j) ==
    IF i = 0 THEN Some(j * SCORE_GAP_LEADING + bonus[j])
    ELSE IF j > 0
    THEN LET pm == Mat_get(m, i - 1, j - 1)
         IN  IF pm.some THEN Some(FAdd(pm.v, bonus[j])) ELSE None
    ELSE Some(SCORE_MIN)

\* lines 109-120: the score of matching needle[i] at haystack[j]; None is a
\* failed unwrap
match_score(m, d, bonus, i, j) ==
    IF i = 0 THEN Some(j * SCORE_GAP_LEADING + bonus[j])
    ELSE IF j > 0
    THEN LET pm == Mat_get(m, i - 1, j - 1)
             pd == Mat_get(d, i - 1, j - 1)
         IN  IF pm.some /\ pd.some
             THEN Some(FMax(FAdd(pm.v, bonus[j]), FAdd(pd.v, SCORE_MATCH_CONSECUTIVE)))
             ELSE None
    ELSE Some(SCORE_MIN)

\* lines 127-129 with the running score of line 129 not updated
skip_cell_stale_prev(st, i, j, gap) ==
    [st EXCEPT !.ok = st.ok /\ InBounds(st.m, i, j),
               !.d = Mat_set(st.d, i, j, SCORE_MIN),
               !.m = Mat_set(st.m, i, j, FAdd(st.prev_score, gap))]

\* lines 127-129: needle[i] does not match haystack[j]
skip_cell(st, i, j, gap) ==
    [st EXCEPT !.ok = st.ok /\ InBounds(st.m, i, j),
               !.d = Mat_set(st.d, i, j, SCORE_MIN),
               !.m = Mat_set(st.m, i, j, FAdd(st.prev_score, gap)),
               !.prev_score = FAdd(st.prev_score, gap)]

\* lines 109-125: needle[i] matches haystack[j]
match_cell(st, bonus, i, j, gap) ==
    LET score == match_score(st.m, st.d, bonus, i, j)
        prev == FMax(score.v, FAdd(st.prev_score, gap))
    IN  IF ~score.some \/ ~InBounds(st.m, i, j) THEN [st EXCEPT !.ok = FALSE]
        ELSE [st EXCEPT !.d = Mat_set(st.d, i, j, score.v),
                        !.m = Mat_set(st.m, i, j, prev),
                        !.prev_score = prev]

\* lines 107-131: the inner loop over the haystack, from column j on
RECURSIVE row_from(_, _, _, _, _, _, _)
row_from(st, needle, haystack, bonus, i, j, gap) ==
    IF j >= Len(haystack) \/ ~st.ok THEN st
    ELSE row_from(IF eq(needle[i + 1], haystack[j + 1])
                  THEN match_cell(st, bonus, i, j, gap)
                  ELSE skip_cell(st, i, j, gap),
                  needle, haystack, bonus, i, j + 1, gap)

\* lines 103-132: the outer loop over the needle, from row i on
RECURSIVE rows_from(_, _, _, _, _, _)
rows_from(st, needle, haystack, bonus, len_n, i) ==
    IF i >= Len(needle) \/ ~st.ok THEN st
    ELSE rows_from(row_from([st EXCEPT !.prev_score = SCORE_MIN],
                            needle, haystack, bonus, i, 0, gap_score(i, len_n)),
                   needle, haystack, bonus, len_n, i + 1)

\* lines 97-135: [m, d, ok]; ok is FALSE when the function panicked
generate_score_matrices(needle, haystack, len_n, len_h) ==
    rows_from([m |-> Mat_new(len_n, len_h), d |-> Mat_new(len_n, len_h),
               prev_score |-> SCORE_MIN, ok |-> TRUE],
              needle, haystack, compute_bonus(haystack), len_n, 0)

\* ------------------------------------------- Score::new, ::with_positions
Fns == {"new", "with_positions"}

Range0(n) == [k \in 1..n |-> k - 1]

NoReturn == [hit |-> FALSE, value |-> 0, has_positions |-> FALSE, positions |-> <<>>]
Return(v, has, pos) == [hit |-> TRUE, value |-> v, has_positions |-> has, positions |-> pos]

\* lines 34-40 and 62-71 with the equal-length test left out
shortcut_no_equal_length(f, len_n, len_h) ==
    IF len_n = 0 THEN Return(SCORE_MIN, FALSE, <<>>) ELSE NoReturn

\* lines 34-40 and 62-71 with the two tests in the other order
shortcut_equal_length_first(f, len_n, len_h) ==
    IF len_n = len_h
    THEN Return(SCORE_MAX, f = "with_positions",
                IF f = "with_positions" THEN Range0(len_n) ELSE <<>>)
    ELSE IF len_n = 0 THEN Return(SCORE_MIN, FALSE, <<>>)
    ELSE NoReturn

\* lines 34-40 (new) and 62-71 (with_positions): the two early returns
shortcut(f, len_n, len_h) ==
    IF len_n = 0 THEN Return(SCORE_MIN, FALSE, <<>>)
    ELSE IF len_n = len_h
    THEN Return(SCORE_MAX, f = "with_positions",
                IF f = "with_positions" THEN Range0(len_n) ELSE <<>>)
    ELSE NoReturn

\* lines 44 and 75: m.get(len_n - 1, len_h - 1).unwrap_or(SCORE_MIN); None is
\* the panic of a checked subtraction
final_score(m, len_n, len_h, checks) ==
    LET row == usize_sub(len_n, 1, checks)
        col == usize_sub(len_h, 1, checks)
    IN  IF ~row.some \/ ~col.some THEN None
        ELSE LET cell == Mat_get(m, row.v, col.v)
             IN  Some(IF cell.some THEN cell.v ELSE SCORE_MIN)

\* ------------------------------------------------- derive_match_positions
\* line 147 with the loop running down to the haystack's first character
scan_guard_inclusive(j) == j >= 0

\* line 147: the guard of the backward scan
scan_guard(j) == j > 0

\* line 153 with the test that the cell is a match left out
accepts_without_match_test(dv, mv, required) == required \/ dv = mv

\* line 153: position j is accepted for needle index i
accepts(dv, mv, required) == dv /= SCORE_MIN /\ (required \/ dv = mv)

\* lines 148-151: the three cells one iteration of the scan reads; ok is
\* FALSE when an unwrap fails
scan_cells(m, d, i, j) ==
    LET l == IF i > 0 /\ j > 0 THEN Mat_get(d, i - 1, j - 1) ELSE Some(0)
        dv == Mat_get(d, i, j)
        mv == Mat_get(m, i, j)
    IN  [ok |-> l.some /\ dv.some /\ mv.some, last |-> l.v, d |-> dv.v, m |-> mv.v]

\* line 154: the acceptance extended a run of consecutive matches
is_consecutive(c, i, j) ==
    i > 0 /\ j > 0 /\ c.m = FAdd(c.last, SCORE_MATCH_CONSECUTIVE)

\* ------------------------------------------------------------------- state
VARIABLES
    needle,           \* the query
    haystack,         \* the candidate
    overflow_checks,  \* the build panics on integer overflow (debug) or wraps
    result,           \* what each of the two functions returned
    pc,               \* where the running call is
    fn,               \* the function running
    m, d,             \* the two matrices of the running call
    score,            \* its score
    positions,        \* its positions vector
    has_positions,    \* positions is Some
    bi, bj,           \* derive_match_positions: needle index, haystack cursor
    match_required    \* derive_match_positions: the flag

vars == <<needle, haystack, overflow_checks, result, pc, fn, m, d, score,
          positions, has_positions, bi, bj, match_required>>

inputs == <<needle, haystack, overflow_checks>>
locals == <<m, d, score, positions, has_positions, bi, bj, match_required>>
cursor == <<bi, bj, match_required>>

len_n == Len(needle)
len_h == Len(haystack)

NoMat == Mat_new(0, 0)

Pending == [status |-> "pending", value |-> 0, has_positions |-> FALSE, positions |-> <<>>]
Panicked == [status |-> "panicked", value |-> 0, has_positions |-> FALSE, positions |-> <<>>]
Returned(v, has, pos) ==
    [status |-> "returned", value |-> v, has_positions |-> has, positions |-> pos]

ClearLocals ==
    /\ m' = NoMat /\ d' = NoMat /\ score' = 0
    /\ positions' = <<>> /\ has_positions' = FALSE
    /\ bi' = 0 /\ bj' = 0 /\ match_required' = FALSE

Init ==
    /\ needle \in Needles
    /\ haystack \in Haystacks
    /\ overflow_checks \in BOOLEAN
    /\ result = [f \in Fns |-> Pending]
    /\ pc = "idle" /\ fn = "new"
    /\ m = NoMat /\ d = NoMat /\ score = 0
    /\ positions = <<>> /\ has_positions = FALSE
    /\ bi = 0 /\ bj = 0 /\ match_required = FALSE

\* the call panics: the result is recorded and the locals are dropped
Panic ==
    /\ result' = [result EXCEPT ![fn] = Panicked]
    /\ pc' = "idle"
    /\ ClearLocals
    /\ UNCHANGED <<inputs, fn>>

\* lines 30-40 and 58-71: the call and its early returns.  The caller scores
\* the pair with Score::new first and with Score::with_positions second.
Call(f) ==
    /\ pc = "idle" /\ result[f].status = "pending"
    /\ f = "with_positions" => result["new"].status /= "pending"
    /\ fn' = f
    /\ LET r == shortcut(f, len_n, len_h)
       IN  IF r.hit
           THEN /\ pc' = "return"
                /\ score' = r.value
                /\ has_positions' = r.has_positions
                /\ positions' = r.positions
           ELSE /\ pc' = "generate"
                /\ UNCHANGED <<score, has_positions, positions>>
    /\ UNCHANGED <<inputs, result, m, d, cursor>>

\* lines 42 and 73
Generate ==
    /\ pc = "generate"
    /\ LET g == generate_score_matrices(needle, haystack, len_n, len_h)
       IN  IF g.ok
           THEN /\ m' = g.m /\ d' = g.d /\ pc' = "extract"
                /\ UNCHANGED <<inputs, result, fn, score, positions, has_positions, cursor>>
           ELSE Panic

\* lines 44-45 and 75
Extract ==
    /\ pc = "extract"
    /\ LET s == final_score(m, len_n, len_h, overflow_checks)
       IN  IF s.some
           THEN /\ score' = s.v
                /\ pc' = IF fn = "new" THEN "return" ELSE "derive"
                /\ UNCHANGED <<inputs, result, fn, m, d, positions, has_positions, cursor>>
           ELSE Panic

\* lines 141-146: the backtracker's locals
DeriveStart ==
    /\ pc = "derive"
    /\ LET j == usize_sub(len_h, 1, overflow_checks)
       IN  IF j.some
           THEN /\ positions' = [k \in 1..len_n |-> 0]
                /\ match_required' = FALSE
                /\ bj' = j.v
                /\ bi' = len_n - 1
                /\ pc' = "scan"
                /\ UNCHANGED <<inputs, result, fn, m, d, score, has_positions>>
           ELSE Panic

\* line 146: the for loop moves to the next lower needle index, or ends
NextIndex ==
    IF bi > 0
    THEN bi' = bi - 1 /\ pc' = "scan" /\ has_positions' = has_positions
    ELSE bi' = bi /\ pc' = "return" /\ has_positions' = TRUE

\* lines 147-161: the scan accepts position bj for needle index bi
DeriveAccept ==
    /\ pc = "scan" /\ scan_guard(bj)
    /\ LET c == scan_cells(m, d, bi, bj)
       IN  /\ c.ok /\ accepts(c.d, c.m, match_required)
           /\ match_required' = (match_required \/ is_consecutive(c, bi, bj))
           /\ positions' = [positions EXCEPT ![bi + 1] = bj]
    /\ NextIndex
    /\ UNCHANGED <<inputs, result, fn, m, d, score, bj>>

\* lines 147-163: the scan rejects position bj and moves the cursor down
DeriveSkip ==
    /\ pc = "scan" /\ scan_guard(bj)
    /\ LET c == scan_cells(m, d, bi, bj)
       IN  c.ok /\ ~accepts(c.d, c.m, match_required)
    /\ LET j == usize_sub(bj, 1, overflow_checks)
       IN  IF j.some
           THEN /\ bj' = j.v
                /\ UNCHANGED <<inputs, result, fn, m, d, score, positions,
                               has_positions, bi, match_required, pc>>
           ELSE Panic

\* lines 148-151: an unwrap of the scan fails
DerivePanic ==
    /\ pc = "scan" /\ scan_guard(bj)
    /\ ~scan_cells(m, d, bi, bj).ok
    /\ Panic

\* line 147: the guard fails, needle index bi keeps position 0
DeriveExhausted ==
    /\ pc = "scan" /\ ~scan_guard(bj)
    /\ NextIndex
    /\ UNCHANGED <<inputs, result, fn, m, d, score, positions, bj, match_required>>

\* lines 35, 39, 45, 63, 67-70, 78: the call returns its Score
Ret ==
    /\ pc = "return"
    /\ result' = [result EXCEPT ![fn] = Returned(score, has_positions, positions)]
    /\ pc' = "idle"
    /\ ClearLocals
    /\ UNCHANGED <<inputs, fn>>

Next ==
    \/ \E f \in Fns : Call(f)
    \/ Generate
    \/ Extract
    \/ DeriveStart
    \/ DeriveAccept
    \/ DeriveSkip
    \/ DerivePanic
    \/ DeriveExhausted
    \/ Ret

Spec == Init /\ [][Next]_vars

\* ================================================================== claims
RanDP == len_n > 0 /\ len_h > 0 /\ len_n /= len_h
Done(f) == result[f].status /= "pending"

\* C1: a non-empty needle and a haystack of the same length give SCORE_MAX
\* from both functions without the matrices being built, whatever the
\* characters; with_positions returns 0, 1, ..., len_n - 1 and new returns None.
C1_EqualLengthIsMax ==
    (len_n > 0 /\ len_n = len_h) =>
        /\ pc \in {"idle", "return"}
        /\ m = NoMat /\ d = NoMat
        /\ pc = "return" =>
            /\ score = SCORE_MAX
            /\ has_positions = (fn = "with_positions")
            /\ positions = IF fn = "with_positions" THEN Range0(len_n) ELSE <<>>
        /\ \A f \in Fns : Done(f) =>
            /\ result[f].status = "returned"
            /\ result[f].value = SCORE_MAX
        /\ Done("new") => ~result["new"].has_positions
        /\ Done("with_positions") =>
            /\ result["with_positions"].has_positions
            /\ result["with_positions"].positions = Range0(len_n)

C1_Witness ==
    /\ len_n = 2 /\ len_h = 2
    /\ \A k \in 1..2 : ~eq(needle[k], haystack[k])
    /\ Done("new") /\ Done("with_positions")

\* C2: an empty needle gives SCORE_MIN and no positions from both functions,
\* for every haystack, the empty one included.
C2_EmptyNeedleIsMin ==
    len_n = 0 =>
        /\ pc \in {"idle", "return"}
        /\ pc = "return" => (score = SCORE_MIN /\ ~has_positions)
        /\ \A f \in Fns : Done(f) =>
            /\ result[f].status = "returned"
            /\ result[f].value = SCORE_MIN
            /\ ~result[f].has_positions

C2_Witness ==
    len_n = 0 /\ len_h = 0 /\ Done("new") /\ Done("with_positions")

\* C3: a non-empty needle and the empty haystack: both functions complete
\* without a panic and return SCORE_MIN.
C3_EmptyHaystackNoCrash ==
    (len_n > 0 /\ len_h = 0) =>
        \A f \in Fns : Done(f) =>
            (result[f].status = "returned" /\ result[f].value = SCORE_MIN)

StrictlyIncreasing(pos) == \A k \in 1..(Len(pos) - 1) : pos[k] < pos[k + 1]

\* C4: when with_positions runs the DP, the positions it returns are len_n
\* haystack indices, each below len_h, strictly increasing.
C4_PositionsStrictlyIncreasing ==
    (RanDP /\ result["with_positions"].status = "returned") =>
        LET pos == result["with_positions"].positions
        IN  /\ result["with_positions"].has_positions
            /\ Len(pos) = len_n
            /\ \A k \in 1..len_n : pos[k] \in 0..(len_h - 1)
            /\ StrictlyIncreasing(pos)

\* C5: for every needle and haystack, with_positions returns the score that
\* new returns.
C5_SameScore ==
    (Done("new") /\ Done("with_positions")) =>
        /\ result["new"].status = "returned"
        /\ result["with_positions"].status = "returned"
        /\ result["new"].value = result["with_positions"].value

\* the haystack starts with the needle, case-insensitively, and goes on
StartsWith(n, h) ==
    Len(h) > Len(n) /\ \A k \in 1..Len(n) : eq(n[k], h[k])

\* Score::new(n, h).value for a non-empty h of another length than n
score_value(n, h) ==
    final_score(generate_score_matrices(n, h, Len(n), Len(h)).m, Len(n), Len(h), FALSE).v

\* C6: of two haystacks that start with the non-empty needle and go on for at
\* least one character, the shorter scores strictly higher.
C6_ShorterCandidatePreferred ==
    (pc = "return" /\ fn = "new" /\ len_n > 0 /\ StartsWith(needle, haystack)) =>
        \A h \in Haystacks :
            (StartsWith(needle, h) /\ Len(h) < len_h) => score_value(needle, h) > score

C6_Witness ==
    /\ pc = "return" /\ fn = "new" /\ len_n = 2
    /\ StartsWith(needle, haystack) /\ len_h = len_n + 2
    /\ eq(haystack[len_h], needle[len_n])

\* the k-th smallest (from 0) element of a set of numbers
Nth(P, k) == CHOOSE x \in P : Cardinality({y \in P : y < x}) = k

\* the strictly increasing assignments of needle[0..=i] to matching haystack
\* positions at or before j, each as the set of its positions
Assignments(i, j) ==
    {P \in SUBSET (0..j) :
        /\ Cardinality(P) = i + 1
        /\ \A k \in 0..i : eq(needle[k + 1], haystack[Nth(P, k) + 1])}

RECURSIVE LaterMatches(_, _, _)
LaterMatches(P, k, i) ==
    IF k > i THEN 0
    ELSE LET p == Nth(P, k)
             q == Nth(P, k - 1)
             b == compute_bonus(haystack)[p]
         IN  (IF p = q + 1 THEN FMax(b, SCORE_MATCH_CONSECUTIVE) ELSE b)
             + (p - q - 1) * SCORE_GAP_INNER
             + LaterMatches(P, k + 1, i)

AssignmentScore(P, i, j) ==
    Nth(P, 0) * SCORE_GAP_LEADING + compute_bonus(haystack)[Nth(P, 0)]
    + LaterMatches(P, 1, i)
    + (j - Nth(P, i)) * (IF i = len_n - 1 THEN SCORE_GAP_TRAILING ELSE SCORE_GAP_INNER)

BestAssignment(i, j) ==
    LET S == {AssignmentScore(P, i, j) : P \in Assignments(i, j)}
    IN  IF S = {} THEN SCORE_MIN ELSE CHOOSE x \in S : \A y \in S : x >= y

\* C7: after generate_score_matrices, M[i][j] is the best score of a strictly
\* increasing assignment of needle[0..=i] to matching positions at or before
\* j, and SCORE_MIN when there is none.
C7_MIsBestAssignment ==
    pc = "extract" =>
        \A i \in 0..(len_n - 1), j \in 0..(len_h - 1) :
            m.at[<<i, j>>] = BestAssignment(i, j)

C7_Witness ==
    /\ pc = "extract" /\ len_n = 3 /\ len_h = 4
    /\ Cardinality(Assignments(2, 3)) >= 2
    /\ m.at[<<2, 3>>] /= SCORE_MIN
    /\ m.at[<<1, 0>>] = SCORE_MIN

\* C8: a position j with D[i][j] /= M[i][j] is accepted for needle index i
\* only if the position accepted for i + 1 is j + 1 and that acceptance
\* extended a run of consecutive matches.
C8_MatchRequiredOnlyNextIndex ==
    (pc \in {"scan", "return"} /\ fn = "with_positions" /\ RanDP) =>
        \A i \in 0..(len_n - 1) :
            LET p == positions[i + 1]
            IN  (p > 0 /\ d.at[<<i, p>>] /= m.at[<<i, p>>]) =>
                    /\ i + 1 < len_n
                    /\ positions[i + 2] = p + 1
                    /\ m.at[<<i + 1, p + 1>>] = FAdd(d.at[<<i, p>>], SCORE_MATCH_CONSECUTIVE)

RECURSIVE IsSubsequence(_, _)
IsSubsequence(n, h) ==
    IF n = <<>> THEN TRUE
    ELSE IF h = <<>> THEN FALSE
    ELSE IF eq(n[1], h[1]) THEN IsSubsequence(Tail(n), Tail(h))
    ELSE IsSubsequence(n, Tail(h))

\* C9: when the needle is a case-insensitive subsequence of the haystack and
\* with_positions runs the DP, the haystack character at every returned
\* position equals its needle character, position 0 left by an exhausted scan
\* included.
C9_PositionsAreMatches ==
    (RanDP /\ result["with_positions"].status = "returned"
        /\ IsSubsequence(needle, haystack)) =>
        LET pos == result["with_positions"].positions
        IN  \A k \in 1..len_n : eq(needle[k], haystack[pos[k] + 1])

C9_Witness ==
    /\ RanDP /\ result["with_positions"].status = "returned"
    /\ IsSubsequence(needle, haystack)
    /\ len_n >= 2
    /\ result["with_positions"].positions[1] = 0
    /\ result["with_positions"].positions[2] > 1

\* C10: for a non-empty needle and a non-empty haystack of another length no
\* call panics (every unwrap of a matrix read succeeds, every write is inside
\* the matrix) and the backtracker's cursor stays in [0, len_h - 1].
C10_IndicesInBounds ==
    RanDP =>
        /\ \A f \in Fns : result[f].status /= "panicked"
        /\ pc \in {"scan", "return"} =>
            /\ bj \in 0..(len_h - 1)
            /\ bi \in 0..(len_n - 1)
        /\ (pc = "scan" /\ scan_guard(bj)) => scan_cells(m, d, bi, bj).ok

C10_Witness ==
    /\ len_n > len_h /\ len_h > 0
    /\ pc = "return" /\ fn = "with_positions" /\ bj = 0

====
